---------------------------- MODULE ClientProofs ----------------------------
(***************************************************************************)
(* Proofs about the life of the client's process (module Client), for any  *)
(* components, priorities below the updater's and threads of the game.     *)
(***************************************************************************)
EXTENDS Client, SequenceTheorems, FiniteSetTheorems, TLAPS

Types == /\ process \in {"alive", "terminated", "exited"}
         /\ components \in Seq(Component) /\ destroyed \in Seq(Component)
         /\ next \in Nat \ {0}
         /\ thread \in [Owner -> {"none", "running", "blocked", "hiding", "ended"}]
         /\ exit \in [Thread -> {"no", "guard", "destroy", "hide", "exit"}]
         /\ guard \in {"unset", "running", "done"}

\* The updater is in front, and the others start only when its thread has ended.
Ordered == /\ Updater \in ToSet(components) => components[1] = Updater
           /\ main # "register" => ToSet(components) = Component
           /\ main = "post_start" /\ next > 1 => thread[Updater] = "ended"
           /\ main \in {"register", "main"} => next = 1
           /\ started # {} => main \notin {"register", "main"} /\ thread[Updater] = "ended"

\* One thread at a time is in the static of pre_destroy, and only once.
Guarded == /\ \A t \in Thread : exit[t] # "no" => main \in {"leaving", "game"}
           /\ \A t \in Thread : exit[t] \in {"destroy", "hide"} => guard = "running"
           /\ \A t, u \in Thread :
                 exit[t] \in {"destroy", "hide"} /\ exit[u] \in {"destroy", "hide"} => t = u
           /\ \A t \in Thread : exit[t] = "exit" => guard = "done"
           /\ guard # "unset" => main \in {"leaving", "game"}
           /\ process = "exited" => guard = "done"

\* Components are destroyed in order, and one whose pre_destroy has returned
\* keeps no thread.
Undone == /\ guard = "unset" => destroyed = <<>>
          /\ Len(destroyed) <= Len(components)
          /\ \A t \in Thread :
                exit[t] = "hide" => /\ Len(destroyed) < Len(components)
                                    /\ components[Len(destroyed) + 1] = Splash
          /\ guard = "done" => Len(destroyed) = Len(components)
          /\ \A k \in 1 .. Len(destroyed) : destroyed[k] = components[k]
          /\ \A k \in 1 .. Len(destroyed) :
                components[k] \in Owner => thread[components[k]] \in {"none", "ended"}

IInv == Types /\ Ordered /\ Guarded /\ Undone

LEMMA InitIInv == Init => IInv
<1> SUFFICES ASSUME Init PROVE IInv
  OBVIOUS
<1> USE DEF Init
<1>1. <<>> \in Seq(Component) /\ Len(<<>>) = 0 /\ ToSet(<<>>) = {}
  BY EmptySeq DEF ToSet
<1>2. Types
  BY <1>1 DEF Types
<1>3. Ordered
  BY <1>1 DEF Ordered
<1>4. Guarded /\ Undone
  BY <1>1 DEF Guarded, Undone
<1>5. QED
  BY <1>2, <1>3, <1>4 DEF IInv

\* Sorting in one more component keeps the updater in front.
LEMMA SortedFirst ==
  ASSUME NEW s \in Seq(Component), NEW c \in Component \ ToSet(s),
         Updater \in ToSet(s) => s[1] = Updater
  PROVE  /\ Sorted(s, c) \in Seq(Component)
         /\ Updater \in ToSet(Sorted(s, c)) => Sorted(s, c)[1] = Updater
<1> DEFINE P == {j \in DOMAIN s : Priority[s[j]] >= Priority[c]}
           p == 1 + Cardinality(P)
           L == SubSeq(s, 1, p - 1)
           R == SubSeq(s, p, Len(s))
           M == L \o <<c>>
<1>1. Len(s) \in Nat /\ DOMAIN s = 1 .. Len(s) /\ \A j \in 1 .. Len(s) : s[j] \in Component
  BY LenProperties, ElementOfSeq
<1>2. Cardinality(P) \in 0 .. Len(s) /\ IsFiniteSet(P)
  <2>1. IsFiniteSet(1 .. Len(s)) /\ Cardinality(1 .. Len(s)) = Len(s)
    <3>1. IsFiniteSet(1 .. Len(s)) /\ Cardinality(1 .. Len(s)) = IF 1 > Len(s) THEN 0 ELSE Len(s) - 1 + 1
      BY <1>1, FS_Interval
    <3>2. QED
      BY <1>1, <3>1
  <2>2. P \subseteq 1 .. Len(s)
    BY <1>1
  <2>3. IsFiniteSet(P) /\ Cardinality(P) <= Cardinality(1 .. Len(s)) /\ Cardinality(P) \in Nat
    BY <2>1, <2>2, FS_Subset, FS_CardinalityType
  <2>4. QED
    BY <1>1, <2>1, <2>3
<1>3. p \in 1 .. Len(s) + 1
  BY <1>1, <1>2
<1>4. /\ Updater # c /\ s # <<>> /\ s[1] = Updater => p > 1
      /\ c = Updater => p = 1
  <2>1. \A d \in Component : Priority[d] \in Nat
    BY ClientAssumption
  <2>2. ASSUME Updater # c, s # <<>>, s[1] = Updater PROVE p > 1
    <3>1. 1 \in P
      BY <1>1, <2>1, <2>2, EmptySeq, ClientAssumption
    <3>2. Cardinality(P) # 0
      BY <1>2, <3>1, FS_EmptySet
    <3>3. QED
      BY <1>2, <3>2
  <2>3. ASSUME c = Updater PROVE p = 1
    <3>1. \A j \in DOMAIN s : s[j] # Updater
      BY <2>3 DEF ToSet
    <3>2. P = {}
      BY <1>1, <2>1, <2>3, <3>1, ClientAssumption
    <3>3. Cardinality(P) = 0
      BY <3>2, FS_EmptySet
    <3>4. QED
      BY <3>3
  <2>4. QED
    BY <2>2, <2>3
<1> HIDE DEF P, p
<1>5. L \in Seq(Component) /\ Len(L) = p - 1 /\ \A j \in 1 .. p - 1 : L[j] = s[j]
  <2>1. \A j \in 1 .. p - 1 : s[j] \in Component
    BY <1>1, <1>3
  <2>2. /\ L \in Seq(Component)
        /\ Len(L) = IF 1 <= p - 1 THEN p - 1 - 1 + 1 ELSE 0
        /\ \A j \in 1 .. p - 1 - 1 + 1 : L[j] = s[1 + j - 1]
    BY <1>3, <2>1, SubSeqProperties
  <2>3. QED
    BY <1>3, <2>2
<1>6. R \in Seq(Component) /\ Len(R) = Len(s) - p + 1 /\ \A j \in 1 .. Len(s) - p + 1 : R[j] = s[p + j - 1]
  <2>1. \A j \in p .. Len(s) : s[j] \in Component
    BY <1>1, <1>3
  <2>2. /\ R \in Seq(Component)
        /\ Len(R) = IF p <= Len(s) THEN Len(s) - p + 1 ELSE 0
        /\ \A j \in 1 .. Len(s) - p + 1 : R[j] = s[p + j - 1]
    BY <1>1, <1>3, <2>1, SubSeqProperties
  <2>3. QED
    BY <1>1, <1>3, <2>2
<1> HIDE DEF L, R
<1>7. /\ M \in Seq(Component) /\ Len(M) = p /\ M[1] = IF p > 1 THEN s[1] ELSE c
      /\ \A j \in 1 .. p : M[j] = IF j < p THEN s[j] ELSE c
  <2>1. <<c>> \in Seq(Component) /\ Len(<<c>>) = 1 /\ <<c>>[1] = c
    OBVIOUS
  <2>2. /\ M \in Seq(Component) /\ Len(M) = Len(L) + 1
        /\ \A j \in 1 .. Len(L) + 1 : M[j] = IF j <= Len(L) THEN L[j] ELSE <<c>>[j - Len(L)]
    BY <1>5, <2>1, ConcatProperties
  <2>3. QED
    BY <1>3, <1>5, <2>1, <2>2
<1> HIDE DEF M
<1>8. /\ M \o R \in Seq(Component) /\ Len(M \o R) = Len(s) + 1
      /\ \A j \in 1 .. Len(s) + 1 : (M \o R)[j] = IF j <= p THEN M[j] ELSE R[j - p]
  <2>1. /\ M \o R \in Seq(Component) /\ Len(M \o R) = Len(M) + Len(R)
        /\ \A j \in 1 .. Len(M) + Len(R) :
              (M \o R)[j] = IF j <= Len(M) THEN M[j] ELSE R[j - Len(M)]
    BY <1>6, <1>7, ConcatProperties
  <2>2. Len(M) + Len(R) = Len(s) + 1
    BY <1>1, <1>3, <1>6, <1>7
  <2>3. QED
    BY <1>7, <2>1, <2>2
<1>9. Sorted(s, c) = M \o R
  BY DEF Sorted, InsertAt, M, L, R, p, P
<1>10. Updater \in ToSet(M \o R) => Updater \in ToSet(s) \/ Updater = c
  <2>1. ASSUME NEW j \in 1 .. Len(s) + 1 PROVE (M \o R)[j] = c \/ \E k \in DOMAIN s : (M \o R)[j] = s[k]
    <3>1. CASE j <= p
      <4>1. (M \o R)[j] = M[j] /\ j \in 1 .. p
        BY <1>3, <1>8, <3>1
      <4>2. CASE j < p
        BY <1>1, <1>3, <1>7, <4>1, <4>2
      <4>3. CASE j = p
        BY <1>3, <1>7, <4>1, <4>3
      <4>4. j < p \/ j = p
        BY <1>1, <1>3, <3>1
      <4>5. QED
        BY <4>2, <4>3, <4>4
    <3>2. CASE j > p
      <4>1. (M \o R)[j] = R[j - p] /\ j - p \in 1 .. Len(s) - p + 1 /\ j - 1 \in 1 .. Len(s)
        BY <1>1, <1>3, <1>8, <3>2
      <4>2. R[j - p] = s[p + (j - p) - 1] /\ p + (j - p) - 1 = j - 1
        BY <1>1, <1>3, <1>6, <4>1
      <4>3. QED
        BY <1>1, <4>1, <4>2
    <3>3. j <= p \/ j > p
      BY <1>1, <1>3
    <3>4. QED
      BY <3>1, <3>2, <3>3
  <2>2. DOMAIN (M \o R) = 1 .. Len(s) + 1
    BY <1>8, LenProperties
  <2>3. QED
    BY <2>1, <2>2 DEF ToSet
<1>11. (M \o R)[1] = M[1]
  BY <1>1, <1>3, <1>8
<1>12. Updater \in ToSet(s) => s # <<>>
  BY <1>1, EmptySeq DEF ToSet
<1>13. QED
  BY <1>4, <1>7, <1>8, <1>9, <1>10, <1>11, <1>12

-----------------------------------------------------------------------------
(* The steps                                                               *)

\* Before the end nothing is destroyed, and no thread is on its way out.
LEMMA NotYet ==
  ASSUME IInv, main \notin {"leaving", "game"}
  PROVE  /\ guard = "unset" /\ destroyed = <<>> /\ Len(destroyed) = 0
         /\ process # "exited"
         /\ \A t \in Thread : exit[t] = "no"
  BY EmptySeq DEF IInv, Types, Guarded, Undone

\* Main leaves: it is the first on its way out.
LEMMA LeaveStep ==
  ASSUME IInv, main \notin {"leaving", "game"}, Leave, UNCHANGED <<guard, process>>
  PROVE  /\ exit' \in [Thread -> {"no", "guard", "destroy", "hide", "exit"}]
         /\ Guarded' /\ \A t \in Thread : exit'[t] # "hide"
<1>1. /\ main' = "leaving"
      /\ exit' \in [Thread -> {"no", "guard", "destroy", "hide", "exit"}]
      /\ \A t \in Thread : exit'[t] \in {"no", "guard"}
  BY NotYet DEF Leave, Thread, IInv, Types
<1>2. QED
  BY <1>1, NotYet DEF Guarded

\* Registration: the sequence grows.
LEMMA RegisterStep == ASSUME IInv, NEW c \in Component, Register(c) PROVE IInv'
<1> USE DEF Register, ending
<1>1. /\ components' = Sorted(components, c)
      /\ components' \in Seq(Component)
      /\ Updater \in ToSet(components') => components'[1] = Updater
  BY SortedFirst DEF IInv, Types, Ordered
<1>2. Types'
  BY <1>1 DEF IInv, Types
<1>3. Ordered'
  <2>1. started' = {} /\ next' = 1
    BY DEF IInv, Ordered
  <2>2. main' \in {"register", "main"} /\ (main' # "register" => ToSet(components') = Component)
    OBVIOUS
  <2>3. QED
    BY <1>1, <2>1, <2>2 DEF Ordered
<1>4. Guarded'
  BY NotYet DEF Guarded
<1>5. Undone'
  BY <1>1, NotYet, LenProperties, EmptySeq DEF Undone
<1>6. QED
  BY <1>2, <1>3, <1>4, <1>5 DEF IInv

\* Main on its way to the game. Only the updater's post_start runs before the
\* update has ended, for it is the first.
LEMMA StartStep ==
  ASSUME IInv, Main \/ PostStart \/ LoadGame \/ PostLoad \/ EnterGame
  PROVE  IInv'
<1> USE DEF Main, PostStart, LoadGame, PostLoad, EnterGame, ending
<1>1. /\ process = "alive" /\ main \notin {"register", "leaving", "game"}
      /\ UNCHANGED <<process, components, guard, destroyed>>
  OBVIOUS
<1>2. /\ ToSet(components) = Component /\ components[1] = Updater
      /\ components \in Seq(Component) /\ Len(components) \in Nat /\ next \in Nat \ {0}
  BY <1>1, ClientAssumption, LenProperties DEF IInv, Types, Ordered, Owner
<1>3. thread' \in [Owner -> {"none", "running", "blocked", "hiding", "ended"}] /\ thread'[Updater] = thread[Updater]
  <2>1. CASE UNCHANGED thread
    BY <2>1 DEF IInv, Types
  <2>2. CASE PostLoad /\ ~UNCHANGED thread
    <3>1. PICK c \in {Scheduler, Network} : thread' = [thread EXCEPT ![c] = "running"]
      BY <2>2 DEF PostLoad
    <3>2. c # Updater /\ c \in Owner /\ Updater \in Owner
      BY <3>1, ClientAssumption DEF Owner
    <3>3. QED
      BY <3>1, <3>2 DEF IInv, Types
  <2>3. QED
    BY <2>1, <2>2
<1>4. next' \in Nat \ {0}
  BY <1>2
<1>5. /\ exit' \in [Thread -> {"no", "guard", "destroy", "hide", "exit"}]
      /\ Guarded' /\ \A t \in Thread : exit'[t] # "hide"
  <2>1. CASE Leave
    BY <1>1, <2>1, LeaveStep
  <2>2. CASE UNCHANGED exit /\ main' \notin {"register"}
    BY <1>1, <2>2, NotYet DEF Guarded, IInv, Types
  <2>3. QED
    BY <2>1, <2>2
<1>6. Types'
  BY <1>1, <1>3, <1>4, <1>5 DEF IInv, Types
<1>7. Undone'
  BY <1>1, <1>2, <1>5, NotYet DEF Undone
<1>8. Ordered'
  <2>1. main' # "register"
    BY DEF Leave
  <2>2. CASE PostStart
    <3>1. components[next] = Updater => thread[Updater] = "ended"
      BY <2>2 DEF Joined
    <3>2. next > 1 => thread[Updater] = "ended"
      BY <2>2 DEF IInv, Ordered
    <3>3. thread[Updater] = "ended"
      BY <1>2, <3>1, <3>2
    <3>4. main' \notin {"register", "main"}
      BY <2>2 DEF Leave
    <3>5. QED
      BY <1>1, <1>2, <1>3, <3>3, <3>4 DEF Ordered
  <2>3. CASE ~PostStart
    <3>1. started' = started
      BY <2>3
    <3>2. main' \notin {"register", "main"}
      BY <2>3 DEF Leave
    <3>3. main' = "post_start" => main = "main" /\ next' = next
      BY <2>3 DEF Leave
    <3>4. main = "main" => next = 1
      BY DEF IInv, Ordered
    <3>5. QED
      BY <1>1, <1>2, <1>3, <3>1, <3>2, <3>3, <3>4 DEF Ordered, IInv
  <2>4. QED
    BY <2>2, <2>3
<1>9. QED
  BY <1>5, <1>6, <1>7, <1>8 DEF IInv

\* A thread of a component goes on or ends.
LEMMA ThreadStep ==
  ASSUME IInv, \/ UpdateEnds \/ SetTitle \/ TitleSet \/ HideSplash \/ SplashHidden
               \/ \E o \in {Scheduler, Network} : ThreadEnds(o)
  PROVE  IInv'
<1> USE DEF UpdateEnds, SetTitle, TitleSet, HideSplash, SplashHidden, ThreadEnds, start, ending, windows
<1>1. /\ UNCHANGED <<components, main, next, started, exit, guard, destroyed>>
      /\ process' # "exited" /\ process' \in {"alive", "terminated"}
  OBVIOUS
<1>2. PICK o \in Owner, v \in {"running", "blocked", "hiding", "ended"} :
         /\ thread' = [thread EXCEPT ![o] = v]
         /\ thread[o] \in {"running", "blocked", "hiding"}
         /\ o = Updater => v = "ended"
  <2>1. Updater \notin {Scheduler, Network}
    BY ClientAssumption
  <2>2. QED
    BY <2>1 DEF Owner
<1>3. Types'
  BY <1>1, <1>2 DEF IInv, Types
<1>4. Guarded'
  BY <1>1 DEF IInv, Guarded
<1>5. \A x \in Owner : thread[x] \in {"none", "ended"} => thread'[x] = thread[x]
  BY <1>2 DEF IInv, Types
<1>6. Ordered' /\ Undone'
  <2>1. Ordered'
    BY <1>1, <1>5, ClientAssumption DEF IInv, Ordered, Owner
  <2>2. Undone'
    BY <1>1, <1>5 DEF IInv, Undone
  <2>3. QED
    BY <2>1, <2>2
<1>7. QED
  BY <1>3, <1>4, <1>6 DEF IInv

\* A thread of the game opens or closes the window, or calls ExitProcess.
LEMMA GameStep ==
  ASSUME IInv, OpenWindow \/ CloseWindow \/ \E t \in Thread : ExitHook(t)
  PROVE  IInv'
<1>1. CASE OpenWindow \/ CloseWindow
  BY <1>1 DEF OpenWindow, CloseWindow, start, ending, IInv, Types, Ordered, Guarded, Undone
<1>2. ASSUME NEW t \in Thread, ExitHook(t) PROVE IInv'
  <2> USE DEF ExitHook, InGame, start
  <2>1. Types'
    BY <1>2 DEF IInv, Types
  <2>2. \A u \in Thread : exit'[u] = IF u = t THEN "guard" ELSE exit[u]
    BY <1>2 DEF IInv, Types
  <2>3. Guarded'
    BY <1>2, <2>2 DEF IInv, Guarded
  <2>4. Ordered' /\ Undone'
    BY <1>2, <2>2 DEF IInv, Ordered, Undone
  <2>5. QED
    BY <2>1, <2>3, <2>4 DEF IInv
<1>3. QED
  BY <1>1, <1>2

\* The static lets the first thread in, and the others out once it is done.
LEMMA GuardStep == ASSUME IInv, NEW t \in Thread, EnterGuard(t) PROVE IInv'
<1> USE DEF EnterGuard, start
<1>1. Types'
  BY DEF IInv, Types
<1>2. \A u \in Thread : exit'[u] = IF u = t THEN (IF guard = "unset" THEN "destroy" ELSE "exit")
                                        ELSE exit[u]
  BY DEF IInv, Types
<1>3. guard \in {"unset", "done"}
  BY DEF IInv, Types
<1>4. Guarded'
  BY <1>2, <1>3 DEF IInv, Guarded
<1>5. Ordered' /\ Undone'
  BY <1>2, <1>3 DEF IInv, Ordered, Undone
<1>6. QED
  BY <1>1, <1>4, <1>5 DEF IInv

\* A component is destroyed, and its thread has ended.
LEMMA DestroyStep ==
  ASSUME IInv, NEW t \in Thread, PreDestroy(t) \/ DestroySplash(t)
  PROVE  IInv'
<1> USE DEF PreDestroy, DestroySplash, FindsSplash, start
<1> DEFINE n == Len(destroyed) + 1
<1>1. /\ n \in 1 .. Len(components) /\ Len(components) \in Nat /\ Len(destroyed) \in Nat
      /\ components[n] \in Component
      /\ Destroying = components[n]
  BY LenProperties, ElementOfSeq DEF IInv, Types, Destroying
<1>2. /\ destroyed' \in Seq(Component) /\ Len(destroyed') = n
      /\ \A k \in 1 .. n - 1 : destroyed'[k] = destroyed[k]
      /\ destroyed'[n] = components[n]
  <2>1. destroyed' = Append(destroyed, Destroying) /\ destroyed \in Seq(Component)
    BY DEF IInv, Types
  <2>2. QED
    BY <1>1, <2>1, AppendProperties
<1>3. UNCHANGED <<process, components, main, next, started, thread, exit, guard>>
  OBVIOUS
<1>4. guard = "running"
  BY DEF IInv, Guarded
<1>5. components[n] \in Owner => thread[components[n]] \in {"none", "ended"}
  BY <1>1, ClientAssumption
<1>6. \A k \in 1 .. n : k \in 1 .. n - 1 \/ k = n
  BY <1>1
<1>7. Undone'
  <2>1. \A k \in 1 .. Len(destroyed') : destroyed'[k] = components'[k]
    BY <1>1, <1>2, <1>3, <1>6 DEF IInv, Undone
  <2>2. \A k \in 1 .. Len(destroyed') :
           components'[k] \in Owner => thread'[components'[k]] \in {"none", "ended"}
    BY <1>1, <1>2, <1>3, <1>5, <1>6 DEF IInv, Undone
  <2>3. \A u \in Thread : exit'[u] # "hide"
    BY <1>3 DEF IInv, Guarded
  <2>4. QED
    BY <1>1, <1>2, <1>3, <1>4, <2>1, <2>2, <2>3 DEF Undone
<1>8. Types' /\ Ordered' /\ Guarded'
  BY <1>2, <1>3 DEF IInv, Types, Ordered, Guarded
<1>9. QED
  BY <1>7, <1>8 DEF IInv

\* The splash screen is found by another thread than main, or main has answered it.
LEMMA HideStep ==
  ASSUME IInv, NEW t \in Thread, WaitForMain(t) \/ MainAnswered(t)
  PROVE  IInv'
<1> USE DEF WaitForMain, MainAnswered, FindsSplash, start, windows
<1>1. UNCHANGED <<process, components, main, next, started, thread, guard>>
  OBVIOUS
<1>2. \A u \in Thread : exit'[u] = IF u # t THEN exit[u]
                                 ELSE IF exit[t] = "destroy" THEN "hide" ELSE "destroy"
  BY DEF IInv, Types
<1>3. exit' \in [Thread -> {"no", "guard", "destroy", "hide", "exit"}]
  BY DEF IInv, Types
<1>4. exit[t] \in {"destroy", "hide"} /\ guard = "running"
      /\ \A u \in Thread : u # t => exit[u] \notin {"destroy", "hide"}
  BY DEF IInv, Guarded
<1>5. Guarded'
  BY <1>1, <1>2, <1>4 DEF IInv, Guarded
<1>6. Ordered'
  BY <1>1 DEF IInv, Ordered
<1>7. CASE WaitForMain(t)
  <2>1. UNCHANGED destroyed /\ Destroying = Splash /\ Len(destroyed) < Len(components)
    BY <1>7
  <2>2. Types' /\ Undone'
    BY <1>1, <1>2, <1>3, <1>4, <2>1 DEF IInv, Types, Undone, Destroying
  <2>3. QED
    BY <1>5, <1>6, <2>2 DEF IInv
<1>8. CASE MainAnswered(t)
  <2> DEFINE n == Len(destroyed) + 1
  <2>1. /\ n \in 1 .. Len(components) /\ Len(components) \in Nat /\ Len(destroyed) \in Nat
        /\ components[n] = Splash /\ components[n] \in Component
        /\ Destroying = components[n]
    BY <1>8, LenProperties, ElementOfSeq DEF IInv, Types, Undone, Destroying
  <2>2. /\ destroyed' \in Seq(Component) /\ Len(destroyed') = n
        /\ \A k \in 1 .. n - 1 : destroyed'[k] = destroyed[k]
        /\ destroyed'[n] = components[n]
    BY <1>8, <2>1, AppendProperties DEF IInv, Types
  <2>3. \A k \in 1 .. n : k \in 1 .. n - 1 \/ k = n
    BY <2>1
  <2>4. \A k \in 1 .. Len(destroyed') : destroyed'[k] = components'[k]
    BY <1>1, <2>1, <2>2, <2>3 DEF IInv, Undone
  <2>5. \A k \in 1 .. Len(destroyed') :
           components'[k] \in Owner => thread'[components'[k]] \in {"none", "ended"}
    BY <1>1, <2>1, <2>2, <2>3, ClientAssumption DEF IInv, Undone
  <2>6. \A u \in Thread : exit'[u] # "hide"
    BY <1>2, <1>4, <1>8
  <2>7. Undone'
    BY <1>1, <1>4, <2>1, <2>2, <2>4, <2>5, <2>6 DEF Undone
  <2>8. Types'
    BY <1>1, <1>3, <2>2 DEF IInv, Types
  <2>9. QED
    BY <1>5, <1>6, <2>7, <2>8 DEF IInv
<1>9. QED
  BY <1>7, <1>8

\* The rest of the way out.
LEMMA OutStep ==
  ASSUME IInv, NEW t \in Thread,
         AskToStop(t) \/ PreDestroyThrows(t) \/ LeaveGuard(t) \/ Exit(t)
  PROVE  IInv'
<1>1. CASE AskToStop(t) \/ PreDestroyThrows(t) \/ Exit(t)
  BY <1>1 DEF AskToStop, PreDestroyThrows, Exit, start, ending, IInv, Types, Ordered, Guarded, Undone
<1>2. CASE LeaveGuard(t)
  <2> USE DEF LeaveGuard, start
  <2>1. Types'
    BY <1>2 DEF IInv, Types
  <2>2. \A u \in Thread : exit'[u] = IF u = t THEN "exit" ELSE exit[u]
    BY <1>2 DEF IInv, Types
  <2>3. guard = "running" /\ \A u \in Thread : u # t => exit[u] \notin {"destroy", "hide"}
    BY <1>2 DEF IInv, Guarded
  <2>4. Guarded'
    BY <1>2, <2>2, <2>3 DEF IInv, Guarded
  <2>5. Ordered' /\ Undone'
    BY <1>2 DEF IInv, Ordered, Undone
  <2>6. QED
    BY <2>1, <2>4, <2>5 DEF IInv
<1>3. QED
  BY <1>1, <1>2

\* Every step keeps the invariant.
LEMMA NextIInv == IInv /\ [Next]_vars => IInv'
<1> SUFFICES ASSUME IInv, [Next]_vars PROVE IInv'
  OBVIOUS
<1>1. CASE \E c \in Component : Register(c)
  BY <1>1, RegisterStep
<1>2. CASE Main \/ PostStart \/ LoadGame \/ PostLoad \/ EnterGame
  BY <1>2, StartStep
<1>3. CASE \/ UpdateEnds \/ SetTitle \/ TitleSet \/ HideSplash \/ SplashHidden
          \/ \E o \in {Scheduler, Network} : ThreadEnds(o)
  BY <1>3, ThreadStep
<1>4. CASE OpenWindow \/ CloseWindow \/ \E t \in Thread : ExitHook(t)
  BY <1>4, GameStep
<1>5. CASE \E t \in Thread : WayOut(t) \/ PreDestroyThrows(t)
  BY <1>5, GuardStep, DestroyStep, HideStep, OutStep DEF WayOut, SplashGone
<1>6. CASE UNCHANGED vars
  BY <1>6 DEF vars, IInv, Types, Ordered, Guarded, Undone
<1>7. QED
  BY <1>1, <1>2, <1>3, <1>4, <1>5, <1>6 DEF Next, Gone

\* The inductive invariant holds.
LEMMA Invariant == Spec => []IInv
  BY InitIInv, NextIInv, PTL DEF Spec

-----------------------------------------------------------------------------
(* The theorems                                                            *)

\* component_loader.cpp: in whatever order the components registered, none but
\* the updater has started before the update was over.
THEOREM UpdateIsFirst == Spec => []UpdateFirst
<1>1. IInv => UpdateFirst
  BY DEF IInv, Ordered, UpdateFirst
<1>2. QED
  BY <1>1, Invariant, PTL

\* component_loader::pre_destroy: no thread goes on to exit while a component is
\* still to be destroyed, whichever thread came first.
THEOREM DestroyedAtExit == Spec => []ExitAfterDestroy
<1>1. IInv => ExitAfterDestroy
  <2>1. SUFFICES ASSUME IInv, NEW t \in Thread, exit[t] = "exit" PROVE destroyed = components
    BY DEF ExitAfterDestroy
  <2>2. Len(destroyed) = Len(components) /\ \A k \in 1 .. Len(destroyed) : destroyed[k] = components[k]
    BY <2>1 DEF IInv, Guarded, Undone
  <2>3. QED
    BY <2>1, <2>2, SeqEqual DEF IInv, Types
<1>2. QED
  BY <1>1, Invariant, PTL

\* The components are deleted with none of their threads running.
THEOREM NoThreadLeft == Spec => []ThreadsJoined
<1>1. IInv => ThreadsJoined
  <2>1. SUFFICES ASSUME IInv, process = "exited", NEW o \in Owner
                 PROVE  thread[o] \in {"none", "ended"}
    BY DEF ThreadsJoined
  <2>2. guard = "done" /\ main # "register" /\ Len(destroyed) = Len(components)
    BY <2>1 DEF IInv, Guarded, Undone
  <2>3. o \in ToSet(components)
    BY <2>1, <2>2, ClientAssumption DEF IInv, Ordered
  <2>4. PICK k \in 1 .. Len(components) : components[k] = o
    BY <2>1, <2>3, LenProperties DEF ToSet, IInv, Types
  <2>5. QED
    BY <2>1, <2>2, <2>4 DEF IInv, Undone
<1>2. QED
  BY <1>1, Invariant, PTL
=============================================================================
