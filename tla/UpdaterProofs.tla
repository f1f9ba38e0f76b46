---------------------------- MODULE UpdaterProofs ---------------------------
(***************************************************************************)
(* Proofs about the self-update (module Updater), for any published list,  *)
(* any number of threads and any number of mishaps.                        *)
(***************************************************************************)
EXTENDS Updater, SequenceTheorems, TLAPS

Steps == {"off", "test", "take", "begin", "download", "open", "write", "end"}

\* A file that needs no more work, or looks like it.
Fine(d, lost, f) == d[f] = "new" \/ f \in lost

Types ==
    /\ disk \in [File -> Content] /\ dead \in Content
    /\ batch \in Seq(File) /\ IsInjective(batch)
    /\ index \in Nat
    /\ worker \in [Worker -> [step : Steps, file : File]]
    /\ \A w \in Worker : worker[w].step = "off" => worker[w] = Off
    /\ at \notin {"host", "files"} => AllOff

\* Every thread has a file of its own, one that has been taken.
Claims ==
    /\ \A w \in Worker : Busy(w) => \E k \in 1 .. Len(batch) : k <= index /\ worker[w].file = batch[k]
    /\ \A v, w \in Worker : v # w /\ Busy(v) /\ Busy(w) => worker[v].file # worker[w].file
    /\ \A w \in Worker : worker[w].step \in {"download", "open", "write", "end"}
                            => worker[w].file \in downloading

\* As long as nothing is thrown, what has been taken is up to date or in work,
\* and the first thread ends only when there is nothing left to take.
Covered ==
    /\ \A w \in Worker : worker[w].step = "end" => Fine(disk, short, worker[w].file)
    /\ at \in {"host", "files"} /\ exception = "none" =>
          /\ worker[1] = Off => index >= Len(batch)
          /\ \A k \in 1 .. Len(batch) :
                k <= index => Fine(disk, short, batch[k]) \/ \E w \in Worker : Busy(w) /\ worker[w].file = batch[k]

\* What the swap leaves at the program's place: a program, or nothing and the
\* old one beside it, or what a thread is about to complete.
Set(f)   == f \in {"old", "new"}
Swapped  == Set(dead) /\ disk[Host] = "absent"
Writing  == Set(dead) /\ disk[Host] = "partial"
            /\ \E w \in Worker : worker[w].step = "write" /\ worker[w].file = Host

HostSafe ==
    broken \/ /\ Host \notin short
              /\ at \notin {"host", "restore"} => Startable
              /\ at = "host" => ToSet(batch) = {Host} /\ (Startable \/ Swapped \/ Writing)
              /\ at = "restore" => Startable \/ Swapped
              /\ at = "files" => Host \notin ToSet(batch)

IInv == Types /\ Claims /\ Covered /\ HostSafe

LEMMA Constants ==
  /\ Host \in File /\ Host \notin Stray /\ 1 \in Worker
  /\ Off \in [step : Steps, file : File] /\ Off.step = "off" /\ Off.file = Host
<1>1. Host \in File /\ Host \notin Stray
  BY UpdaterAssumption DEF File
<1>2. 1 \in Worker
  BY UpdaterAssumption DEF Worker
<1>3. QED
  BY <1>1, <1>2 DEF Off, Steps

LEMMA InitIInv == Init => IInv
<1> SUFFICES ASSUME Init PROVE IInv
  OBVIOUS
<1> USE DEF Init
<1>1. \A w \in Worker : worker[w] = Off
  OBVIOUS
<1>2. Types
  <2>1. <<>> \in Seq(File) /\ IsInjective(<<>>)
    BY EmptySeq DEF IsInjective
  <2>2. worker \in [Worker -> [step : Steps, file : File]]
    BY Constants
  <2>3. QED
    BY <1>1, <2>1, <2>2 DEF Types, AllOff, Content
<1>3. Claims /\ Covered
  BY <1>1, Constants DEF Claims, Covered, Busy
<1>4. HostSafe
  BY Constants DEF HostSafe, Startable
<1>5. QED
  BY <1>2, <1>3, <1>4 DEF IInv

\* What one thread's record is after a step of it, and what the others' are.
LEMMA StepEffect ==
  ASSUME Types, NEW w \in Worker, NEW s \in Steps, Step(w, s)
  PROVE  /\ worker' \in [Worker -> [step : Steps, file : File]]
         /\ worker'[w].step = s /\ worker'[w].file = worker[w].file
         /\ \A v \in Worker : v # w => worker'[v] = worker[v]
  BY DEF Types, Step

LEMMA EndsEffect ==
  ASSUME Types, NEW w \in Worker, Ends(w)
  PROVE  /\ worker' \in [Worker -> [step : Steps, file : File]]
         /\ worker'[w] = Off
         /\ \A v \in Worker : v # w => worker'[v] = worker[v]
  BY Constants DEF Types, Ends

\* A batch is a sequence of distinct names.
LEMMA OrderedBatch ==
  ASSUME NEW S \in SUBSET ToSet(Listed), NEW s \in InOrder(S)
  PROVE  s \in Seq(S) /\ Len(s) \in Nat /\ ToSet(s) = S /\ IsInjective(s)
<1>1. Len(Listed) \in Nat /\ DOMAIN Listed = 1 .. Len(Listed)
  BY UpdaterAssumption, LenProperties
<1>2. PICK n \in 0 .. Len(Listed) : s \in [1 .. n -> S]
  BY DEF InOrder, SeqOf
<1>3. s \in Seq(S) /\ Len(s) \in Nat
  BY <1>1, <1>2
<1>4. ASSUME NEW j \in DOMAIN s, NEW k \in DOMAIN s, s[j] = s[k], j < k PROVE FALSE
  <2>1. Place(s[j]) < Place(s[k])
    BY <1>4 DEF InOrder
  <2>2. s[j] \in ToSet(Listed)
    BY <1>2
  <2>3. Place(s[j]) \in 1 .. Len(Listed)
    BY <1>1, <2>2 DEF Place, ToSet
  <2>4. QED
    BY <1>1, <1>4, <2>1, <2>3
<1>5. IsInjective(s)
  <2>1. SUFFICES ASSUME NEW j \in DOMAIN s, NEW k \in DOMAIN s, s[j] = s[k], j # k PROVE FALSE
    BY DEF IsInjective
  <2>2. j \in Int /\ k \in Int
    BY <1>1, <1>2
  <2>3. j < k \/ k < j
    BY <2>1, <2>2
  <2>4. QED
    BY <1>4, <2>1, <2>3
<1>6. QED
  BY <1>3, <1>5 DEF InOrder

-----------------------------------------------------------------------------
(* The threads                                                             *)

\* A thread moves on without touching a file or the index.
LEMMA QuietStep ==
  ASSUME IInv, NEW w \in Worker, NEW s \in Steps \ {"off"}, Step(w, s), worker[w].step # "off",
         UNCHANGED <<disk, host, at, batch, index, exception, ghost>>,
         downloading' = downloading \/ downloading' = downloading \cup {worker[w].file},
         \/ worker[w].step = "test" /\ s = "take"
         \/ worker[w].step = "begin" /\ s = "download" /\ worker[w].file \in downloading'
         \/ worker[w].step = "download" /\ s = "open"
  PROVE  IInv'
<1>1. /\ worker' \in [Worker -> [step : Steps, file : File]]
      /\ worker'[w].step = s /\ worker'[w].file = worker[w].file
      /\ \A v \in Worker : v # w => worker'[v] = worker[v]
  BY StepEffect DEF IInv
<1>2. at \in {"host", "files"}
  BY Constants DEF IInv, Types, AllOff
<1>3. Types'
  BY <1>1, <1>2, Constants DEF IInv, Types, host, AllOff
<1>4. \A v \in Worker : (Busy(v)' <=> Busy(v)) /\ worker'[v].file = worker[v].file
  BY <1>1 DEF Busy
<1>5. Claims'
  BY <1>1, <1>4 DEF IInv, Claims
<1>6. Covered'
  <2>1. \A v \in Worker : worker'[v].step = "end" => worker[v].step = "end"
    BY <1>1
  <2>2. worker'[1] = Off => worker[1] = Off
    BY <1>1, Constants
  <2>3. QED
    BY <1>4, <2>1, <2>2 DEF IInv, Covered, Fine, ghost, host
<1>7. HostSafe'
  <2>1. \A v \in Worker : worker[v].step = "write" => worker'[v] = worker[v]
    BY <1>1
  <2>2. Writing => Writing'
    BY <2>1 DEF Writing, host, Set
  <2>3. QED
    BY <2>2 DEF IInv, HostSafe, ghost, host, Startable, Swapped, Set
<1>8. QED
  BY <1>3, <1>5, <1>6, <1>7 DEF IInv

\* A thread ends, with an exception or with nothing left to take.
LEMMA EndingStep ==
  ASSUME IInv, NEW w \in Worker, Ends(w), worker[w].step # "off",
         UNCHANGED <<disk, host, at, batch, downloading, short, broken>>,
         index' \in Nat /\ index' >= index,
         exception' # "none" \/ (exception' = exception /\ ~Busy(w) /\ index >= Len(batch)),
         worker[w].step # "write"
  PROVE  IInv'
<1>1. /\ worker' \in [Worker -> [step : Steps, file : File]]
      /\ worker'[w] = Off
      /\ \A v \in Worker : v # w => worker'[v] = worker[v]
  BY EndsEffect DEF IInv
<1>2. at \in {"host", "files"} /\ index \in Nat /\ Len(batch) \in Nat
  BY Constants, LenProperties DEF IInv, Types, AllOff
<1>3. Types'
  BY <1>1, <1>2, Constants DEF IInv, Types, host, AllOff
<1>4. \A v \in Worker : Busy(v)' => Busy(v) /\ worker'[v] = worker[v]
  BY <1>1, Constants DEF Busy
<1>5. Claims'
  <2>1. \A v \in Worker : Busy(v)' => \E k \in 1 .. Len(batch) : k <= index' /\ worker'[v].file = batch[k]
    <3>1. SUFFICES ASSUME NEW v \in Worker, Busy(v)'
                   PROVE  \E k \in 1 .. Len(batch) : k <= index' /\ worker'[v].file = batch[k]
      OBVIOUS
    <3>2. PICK k \in 1 .. Len(batch) : k <= index /\ worker[v].file = batch[k]
      BY <1>4, <3>1 DEF IInv, Claims
    <3>3. k <= index'
      BY <1>2, <3>2
    <3>4. QED
      BY <1>4, <3>1, <3>2, <3>3
  <2>2. \A v \in Worker : worker'[v].step \in {"download", "open", "write", "end"}
                             => Busy(v)' /\ worker'[v].file \in downloading
    BY <1>4 DEF Busy, IInv, Claims
  <2>3. QED
    BY <1>4, <2>1, <2>2 DEF IInv, Claims
<1>6. Covered'
  <2>1. \A v \in Worker : worker'[v].step = "end" => worker[v].step = "end" /\ worker'[v] = worker[v]
    BY <1>1, Constants
  <2>2. \A f : Fine(disk', short', f) <=> Fine(disk, short, f)
    BY DEF Fine
  <2>3. CASE exception' # "none"
    BY <2>1, <2>2, <2>3 DEF IInv, Covered
  <2>4. CASE exception' = exception /\ ~Busy(w) /\ index >= Len(batch)
    <3>1. \A v \in Worker : Busy(v) => Busy(v)' /\ worker'[v] = worker[v]
      BY <1>1, <2>4 DEF Busy
    <3>2. index' >= Len(batch)
      BY <1>2, <2>4
    <3>3. \A k \in 1 .. Len(batch) : k <= index
      BY <1>2, <2>4
    <3>4. ASSUME exception = "none", NEW k \in 1 .. Len(batch)
          PROVE  Fine(disk', short', batch[k]) \/ \E v \in Worker : Busy(v)' /\ worker'[v].file = batch[k]
      <4>1. Fine(disk, short, batch[k]) \/ \E v \in Worker : Busy(v) /\ worker[v].file = batch[k]
        BY <1>2, <3>3, <3>4 DEF IInv, Covered
      <4>2. QED
        BY <2>2, <3>1, <4>1 DEF Fine
    <3>5. QED
      BY <2>1, <2>2, <2>4, <3>2, <3>4 DEF IInv, Covered
  <2>5. QED
    BY <2>3, <2>4
<1>7. HostSafe'
  <2>1. \A v \in Worker : worker[v].step = "write" => worker'[v] = worker[v]
    BY <1>1
  <2>2. Writing => Writing'
    BY <2>1 DEF Writing, host, Set
  <2>3. QED
    BY <2>2 DEF IInv, HostSafe, host, Startable, Swapped, Set
<1>8. QED
  BY <1>3, <1>5, <1>6, <1>7 DEF IInv

\* A thread takes the next file, which no other has had.
LEMMA TakeStep == ASSUME IInv, NEW w \in Worker, Take(w) PROVE IInv'
<1> USE DEF Take
<1>1. /\ at \in {"host", "files"} /\ index \in Nat /\ Len(batch) \in Nat
      /\ DOMAIN batch = 1 .. Len(batch)
      /\ worker[w].step = "take" /\ ~Busy(w)
  BY Constants, LenProperties DEF IInv, Types, AllOff, Busy
<1>2. CASE ~(index < Len(batch))
  BY <1>1, <1>2, EndingStep DEF ui, ghost
<1>3. CASE index < Len(batch)
  <2> DEFINE f == batch[index + 1]
  <2>1. index + 1 \in 1 .. Len(batch) /\ f \in File
    BY <1>1, <1>3, ElementOfSeq DEF IInv, Types
  <2>2. /\ worker' \in [Worker -> [step : Steps, file : File]]
        /\ worker'[w] = [step |-> "begin", file |-> f]
        /\ \A v \in Worker : v # w => worker'[v] = worker[v]
    BY <1>3, <2>1 DEF IInv, Types, Steps
  <2> HIDE DEF f
  <2>3. worker'[w].step = "begin" /\ worker'[w].file = f /\ Busy(w)'
    BY <2>2 DEF Busy
  <2>4. \A v \in Worker : v # w => (Busy(v)' <=> Busy(v))
    BY <2>2 DEF Busy
  <2>5. \A k \in 1 .. Len(batch) : k <= index => batch[k] # f
    <3>1. \A k \in 1 .. Len(batch) : batch[k] = batch[index + 1] => k = index + 1
      BY <1>1, <2>1 DEF IInv, Types, IsInjective
    <3>2. QED
      BY <1>1, <3>1 DEF f
  <2>6. \A v \in Worker : v # w /\ Busy(v) => worker[v].file # f
    BY <2>5 DEF IInv, Claims
  <2>7. Types'
    BY <1>1, <2>2, Constants DEF IInv, Types, host, ui, ghost, AllOff
  <2>8. Claims'
    <3>1. ASSUME NEW v \in Worker, Busy(v)'
          PROVE  \E k \in 1 .. Len(batch) : k <= index + 1 /\ worker'[v].file = batch[k]
      <4>1. CASE v = w
        BY <1>1, <2>1, <2>3, <4>1 DEF f
      <4>2. CASE v # w
        <5>1. PICK k \in 1 .. Len(batch) : k <= index /\ worker[v].file = batch[k]
          BY <2>4, <3>1, <4>2 DEF IInv, Claims
        <5>2. QED
          BY <1>1, <2>2, <4>2, <5>1
      <4>3. QED
        BY <4>1, <4>2
    <3>2. \A v, u \in Worker : v # u /\ Busy(v)' /\ Busy(u)' => worker'[v].file # worker'[u].file
      BY <2>2, <2>3, <2>4, <2>6 DEF IInv, Claims
    <3>3. \A v \in Worker : worker'[v].step \in {"download", "open", "write", "end"}
                             => worker'[v].file \in downloading'
      BY <2>2, <2>3 DEF IInv, Claims, ui
    <3>4. QED
      BY <3>1, <3>2, <3>3 DEF Claims
  <2>9. Covered'
    <3>1. \A g : Fine(disk', short', g) <=> Fine(disk, short, g)
      BY DEF Fine, ghost
    <3>2. \A v \in Worker : worker'[v].step = "end" => worker'[v] = worker[v]
      BY <2>2, <2>3
    <3>3. worker'[1] = Off => worker[1] = Off /\ 1 # w
      BY <2>2, <2>3, Constants
    <3>4. worker[1] = Off /\ exception = "none" => FALSE
      BY <1>1, <1>3 DEF IInv, Covered
    <3>5. ASSUME exception = "none", NEW k \in 1 .. Len(batch), k <= index + 1
          PROVE  Fine(disk, short, batch[k]) \/ \E v \in Worker : Busy(v)' /\ worker'[v].file = batch[k]
      <4>1. CASE k = index + 1
        BY <2>3, <4>1 DEF f
      <4>2. CASE k # index + 1
        <5>1. k <= index
          BY <1>1, <3>5, <4>2
        <5>2. Fine(disk, short, batch[k]) \/ \E v \in Worker : Busy(v) /\ worker[v].file = batch[k]
          BY <1>1, <3>5, <5>1 DEF IInv, Covered
        <5>3. \A v \in Worker : Busy(v) => v # w
          BY <1>1
        <5>4. QED
          BY <2>2, <2>4, <5>2, <5>3
      <4>3. QED
        BY <4>1, <4>2
    <3>6. \A v \in Worker : worker'[v].step = "end" => Fine(disk', short', worker'[v].file)
      BY <3>1, <3>2 DEF IInv, Covered
    <3>7. QED
      BY <3>1, <3>3, <3>4, <3>5, <3>6 DEF Covered
  <2>10. HostSafe'
    <3>1. \A v \in Worker : worker[v].step = "write" => worker'[v] = worker[v]
      BY <1>1, <2>2
    <3>2. Writing => Writing'
      BY <3>1 DEF Writing, host, Set
    <3>3. QED
      BY <3>2 DEF IInv, HostSafe, ghost, host, Startable, Swapped, Set
  <2>11. QED
    BY <2>7, <2>8, <2>9, <2>10 DEF IInv
<1>4. QED
  BY <1>2, <1>3

\* A thread works on its file and on nothing else.
LEMMA FileStep ==
  ASSUME IInv, NEW w \in Worker, NEW s \in {"write", "end"}, NEW c \in Content,
         Step(w, s), worker[w].step \in {"open", "write"},
         disk' = [disk EXCEPT ![worker[w].file] = c],
         UNCHANGED <<host, at, batch, index, exception, ui>>,
         \A f : f # worker[w].file => (f \in short' <=> f \in short),
         s = "end" => c = "new" \/ worker[w].file \in short',
         HostSafe'
  PROVE  IInv'
<1>1. /\ worker' \in [Worker -> [step : Steps, file : File]]
      /\ worker'[w].step = s /\ worker'[w].file = worker[w].file
      /\ \A v \in Worker : v # w => worker'[v] = worker[v]
  BY StepEffect DEF IInv, Steps
<1>2. at \in {"host", "files"} /\ worker[w].file \in File
  BY Constants DEF IInv, Types, AllOff
<1>3. Types'
  BY <1>1, <1>2, Constants DEF IInv, Types, host, ui, AllOff
<1>4. \A v \in Worker : (Busy(v)' <=> Busy(v)) /\ worker'[v].file = worker[v].file
  BY <1>1 DEF Busy
<1>5. Claims'
  BY <1>1, <1>4 DEF IInv, Claims, ui
<1>6. \A f \in File : f # worker[w].file => (Fine(disk', short', f) <=> Fine(disk, short, f))
  BY DEF Fine, IInv, Types
<1>7. s = "end" => Fine(disk', short', worker[w].file)
  BY <1>2 DEF Fine, IInv, Types
<1>8. Covered'
  <2>1. ASSUME NEW v \in Worker, worker'[v].step = "end" PROVE Fine(disk', short', worker'[v].file)
    <3>1. CASE v = w
      BY <1>1, <1>7, <2>1, <3>1
    <3>2. CASE v # w
      <4>1. worker[v].step = "end" /\ Busy(v) /\ Busy(w)
        BY <1>1, <2>1, <3>2 DEF Busy
      <4>2. worker[v].file # worker[w].file /\ worker[v].file \in File /\ Fine(disk, short, worker[v].file)
        BY <3>2, <4>1 DEF IInv, Types, Claims, Covered
      <4>3. QED
        BY <1>4, <1>6, <4>2
    <3>3. QED
      BY <3>1, <3>2
  <2>2. worker'[1] = Off => worker[1] = Off
    BY <1>1, Constants
  <2>3. ASSUME NEW k \in 1 .. Len(batch), exception = "none", k <= index
        PROVE  Fine(disk', short', batch[k]) \/ \E v \in Worker : Busy(v)' /\ worker'[v].file = batch[k]
    <3>1. Fine(disk, short, batch[k]) \/ \E v \in Worker : Busy(v) /\ worker[v].file = batch[k]
      BY <1>2, <2>3 DEF IInv, Covered
    <3>2. batch[k] = worker[w].file => Busy(w)'
      BY <1>1 DEF Busy
    <3>3. batch[k] \in File
      BY ElementOfSeq DEF IInv, Types
    <3>4. QED
      BY <1>4, <1>6, <3>1, <3>2, <3>3
  <2>4. UNCHANGED <<at, exception, index, batch>>
    OBVIOUS
  <2>5. QED
    BY <2>1, <2>2, <2>3, <2>4 DEF IInv, Covered
<1>9. QED
  BY <1>3, <1>5, <1>8 DEF IInv

\* The program is written only where it has been moved away.
LEMMA OpenStep == ASSUME IInv, NEW w \in Worker, Open(w) PROVE IInv'
<1> DEFINE f == worker[w].file
<1>1. index \in Nat /\ at \in {"host", "files"}
  BY Constants DEF Open, IInv, Types, AllOff
<1>2. CASE f = Host /\ disk[Host] # "absent"
  BY <1>1, <1>2, EndingStep DEF Open, Throws, ui, ghost
<1>3. CASE ~(f = Host /\ disk[Host] # "absent")
  <2>1. /\ Step(w, "write") /\ worker[w].step = "open"
        /\ disk' = [disk EXCEPT ![f] = "partial"]
        /\ UNCHANGED <<host, at, batch, index, exception, ui, ghost>>
    BY <1>3 DEF Open
  <2>2. /\ worker'[w].step = "write" /\ worker'[w].file = f
        /\ \A v \in Worker : v # w => worker'[v] = worker[v]
    BY <2>1, StepEffect DEF IInv, Steps
  <2>3. f \in ToSet(batch)
    BY <2>1, LenProperties DEF IInv, Types, Claims, Busy, ToSet
  <2>4. HostSafe'
    <3>1. CASE f # Host
      <4>1. disk'[Host] = disk[Host]
        BY <2>1, <3>1 DEF IInv, Types
      <4>2. \A v \in Worker : worker[v].step = "write" => worker'[v] = worker[v]
        BY <2>1, <2>2
      <4>3. Writing => Writing'
        BY <2>1, <4>1, <4>2 DEF Writing, host, Set
      <4>4. QED
        BY <2>1, <4>1, <4>3 DEF IInv, HostSafe, ghost, host, Startable, Swapped, Set
    <3>2. CASE f = Host
      <4>1. disk[Host] = "absent" /\ disk'[Host] = "partial"
        BY <1>3, <2>1, <3>2, Constants DEF IInv, Types
      <4>2. broken \/ (at = "host" /\ Set(dead))
        BY <1>1, <2>3, <3>2, <4>1 DEF IInv, HostSafe, Startable, Swapped, Writing
      <4>3. ~broken => Writing'
        BY <2>1, <2>2, <3>2, <4>1, <4>2 DEF Writing, host, Set
      <4>4. QED
        BY <2>1, <4>2, <4>3 DEF IInv, HostSafe, ghost
    <3>3. QED
      BY <3>1, <3>2
  <2>5. QED
    BY <2>1, <2>4, FileStep DEF Content, ghost
<1>4. QED
  BY <1>2, <1>3

LEMMA WriteStep == ASSUME IInv, NEW w \in Worker, Write(w) \/ WriteShort(w) PROVE IInv'
<1> DEFINE f == worker[w].file
<1>1. /\ at \in {"host", "files"} /\ f \in File /\ disk[f] \in Content
      /\ Step(w, "end") /\ worker[w].step = "write"
      /\ UNCHANGED <<host, at, batch, index, exception, ui>>
  BY Constants DEF Write, WriteShort, IInv, Types, AllOff
<1>2. /\ worker'[w].step = "end"
      /\ \A v \in Worker : v # w => worker'[v] = worker[v]
  BY <1>1, StepEffect DEF IInv, Steps
<1>3. CASE f # Host
  <2>1. /\ disk'[Host] = disk[Host] /\ (Host \in short' <=> Host \in short) /\ (broken' <=> broken)
    <3>1. CASE Write(w)
      BY <1>1, <1>3, <3>1, Constants DEF Write, IInv, Types
    <3>2. CASE WriteShort(w)
      BY <1>1, <1>3, <3>2, Constants DEF WriteShort, IInv, Types
    <3>3. QED
      BY <3>1, <3>2
  <2>2. Writing => Writing'
    BY <1>1, <1>2, <1>3, <2>1 DEF Writing, host, Set
  <2>3. HostSafe'
    BY <1>1, <2>1, <2>2 DEF IInv, HostSafe, host, Startable, Swapped, Set
  <2>4. QED
    BY <1>1, <2>3, FileStep DEF Write, WriteShort, Content, IInv, Types
<1>4. CASE f = Host /\ Write(w)
  <2>1. disk'[Host] = "new" /\ broken' = broken /\ Host \notin short'
    BY <1>1, <1>4 DEF Write, IInv, Types
  <2>2. HostSafe'
    BY <1>1, <2>1 DEF IInv, HostSafe, Startable
  <2>3. QED
    BY <1>1, <1>4, <2>2, FileStep DEF Write, Content
<1>5. CASE f = Host /\ WriteShort(w)
  <2>1. HostSafe'
    BY <1>5 DEF WriteShort, HostSafe
  <2>2. disk' = [disk EXCEPT ![f] = disk[f]]
    BY <1>5 DEF WriteShort, IInv, Types
  <2>3. QED
    BY <1>1, <1>5, <2>1, <2>2, FileStep DEF WriteShort
<1>6. QED
  BY <1>3, <1>4, <1>5

\* A file is taken off those being downloaded, and no other thread has it.
LEMMA EndStep == ASSUME IInv, NEW w \in Worker, End(w) PROVE IInv'
<1> USE DEF End
<1>1. /\ worker' \in [Worker -> [step : Steps, file : File]]
      /\ worker'[w].step = "test"
      /\ \A v \in Worker : v # w => worker'[v] = worker[v]
  BY StepEffect DEF IInv, Steps
<1>2. at \in {"host", "files"} /\ Busy(w) /\ ~Busy(w)'
  BY <1>1, Constants DEF IInv, Types, AllOff, Busy
<1>3. \A v \in Worker : v # w => (Busy(v)' <=> Busy(v)) /\ worker'[v] = worker[v]
  BY <1>1 DEF Busy
<1>4. Types'
  BY <1>1, <1>2, Constants DEF IInv, Types, host, ghost, AllOff
<1>5. Claims'
  <2>1. ASSUME NEW v \in Worker, worker'[v].step \in {"download", "open", "write", "end"}
        PROVE  worker'[v].file \in downloading'
    <3>1. v # w /\ worker[v].step \in {"download", "open", "write", "end"} /\ Busy(v)
      BY <1>1, <2>1 DEF Busy
    <3>2. worker[v].file \in downloading /\ worker[v].file # worker[w].file
      BY <1>2, <3>1 DEF IInv, Claims
    <3>3. QED
      BY <1>1, <3>1, <3>2
  <2>2. QED
    BY <1>2, <1>3, <2>1 DEF IInv, Claims
<1>6. Covered'
  <2>1. \A f : Fine(disk', short', f) <=> Fine(disk, short, f)
    BY DEF Fine, ghost
  <2>2. Fine(disk, short, worker[w].file)
    BY DEF IInv, Covered
  <2>3. \A v \in Worker : worker'[v].step = "end" => Fine(disk', short', worker'[v].file)
    BY <1>1, <2>1 DEF IInv, Covered
  <2>4. worker'[1] = Off => worker[1] = Off
    BY <1>1, Constants
  <2>5. ASSUME NEW k \in 1 .. Len(batch), exception = "none", k <= index
        PROVE  Fine(disk, short, batch[k]) \/ \E v \in Worker : Busy(v)' /\ worker'[v].file = batch[k]
    <3>1. Fine(disk, short, batch[k]) \/ \E v \in Worker : Busy(v) /\ worker[v].file = batch[k]
      BY <1>2, <2>5 DEF IInv, Covered
    <3>2. QED
      BY <1>3, <2>2, <3>1
  <2>6. QED
    BY <2>1, <2>3, <2>4, <2>5 DEF IInv, Covered, host
<1>7. HostSafe'
  <2>1. \A v \in Worker : worker[v].step = "write" => worker'[v] = worker[v]
    BY <1>1
  <2>2. Writing => Writing'
    BY <2>1 DEF Writing, host, Set
  <2>3. QED
    BY <2>2 DEF IInv, HostSafe, ghost, host, Startable, Swapped, Set
<1>8. QED
  BY <1>4, <1>5, <1>6, <1>7 DEF IInv

LEMMA ThreadStep == ASSUME IInv, NEW w \in Worker, Thread(w) PROVE IInv'
<1>1. index \in Nat /\ index >= index
  BY DEF IInv, Types
<1>2. CASE Test(w)
  <2>1. CASE exception = "none"
    BY <1>2, <2>1, QuietStep DEF Test, Steps, ui
  <2>2. CASE exception # "none"
    BY <1>1, <1>2, <2>2, EndingStep DEF Test, ui, ghost
  <2>3. QED
    BY <2>1, <2>2
<1>3. CASE Begin(w)
  <2>1. CASE cancelled
    BY <1>1, <1>3, <2>1, EndingStep DEF Begin, Throws, ghost
  <2>2. CASE ~cancelled
    BY <1>3, <2>2, QuietStep DEF Begin, Steps
  <2>3. QED
    BY <2>1, <2>2
<1>4. CASE Download(w)
  BY <1>4, QuietStep DEF Download, Steps, ui
<1>5. CASE DownloadFails(w) \/ DownloadCancelled(w)
  BY <1>1, <1>5, EndingStep DEF DownloadFails, DownloadCancelled, Throws, ui, ghost
<1>6. QED
  BY <1>2, <1>3, <1>4, <1>5, TakeStep, OpenStep, WriteStep, EndStep DEF Thread

-----------------------------------------------------------------------------
(* The update thread, the user, the system and the publisher               *)

\* update_files begins with nothing taken, and one thread at least.
LEMMA FreshBatch ==
  ASSUME NEW files \in Seq(File), UpdateFiles(files), IsInjective(files), Len(files) >= 1,
         disk' \in [File -> Content], dead' \in Content, at' \in {"host", "files"}
  PROVE  Types' /\ Claims' /\ Covered'
<1> USE DEF UpdateFiles
<1>1. /\ worker' \in [Worker -> [step : Steps, file : File]]
      /\ \A w \in Worker : worker'[w].step \in {"off", "test"}
      /\ \A w \in Worker : worker'[w].step = "off" => worker'[w] = Off
  <2>1. ASSUME NEW w \in Worker
        PROVE  /\ worker'[w] \in [step : Steps, file : File]
               /\ worker'[w].step \in {"off", "test"}
               /\ worker'[w].step = "off" => worker'[w] = Off
    <3>1. CASE w <= Len(files)
      <4>1. worker'[w] = [Off EXCEPT !.step = "test"]
        BY <3>1
      <4>2. QED
        BY <4>1, Constants DEF Steps
    <3>2. CASE ~(w <= Len(files))
      <4>1. worker'[w] = Off
        BY <3>2
      <4>2. QED
        BY <4>1, Constants
    <3>3. QED
      BY <3>1, <3>2
  <2>2. QED
    BY <2>1
<1>2. worker'[1] # Off
  <2>1. worker'[1] = [Off EXCEPT !.step = "test"]
    BY Constants
  <2>2. worker'[1].step = "test"
    BY <2>1, Constants
  <2>3. QED
    BY <2>2, Constants
<1>3. Types'
  BY <1>1 DEF Types
<1>4. \A w \in Worker : ~Busy(w)'
  BY <1>1 DEF Busy
<1>5. Claims'
  BY <1>1, <1>4 DEF Claims
<1>6. \A k \in 1 .. Len(batch') : ~(k <= index')
  OBVIOUS
<1>7. Covered'
  BY <1>1, <1>2, <1>6 DEF Covered
<1>8. QED
  BY <1>3, <1>5, <1>7

\* With no thread at work and no batch, there is nothing to claim or cover.
LEMMA Idle ==
  ASSUME IInv, AllOff, worker' = worker, UNCHANGED <<batch, index>>,
         at' \notin {"host", "files"} \/ UNCHANGED <<disk, at, exception, short>>,
         disk' \in [File -> Content], dead' \in Content
  PROVE  Types' /\ Claims' /\ Covered'
<1>1. \A w \in Worker : worker[w] = Off /\ worker'[w] = Off /\ ~Busy(w) /\ ~Busy(w)'
  BY Constants DEF AllOff, Busy
<1>2. Types'
  BY <1>1 DEF IInv, Types, AllOff
<1>3. Claims'
  BY <1>1, Constants DEF Claims
<1>4. Covered'
  <2>1. \A w \in Worker : worker'[w].step # "end"
    BY <1>1, Constants
  <2>2. CASE at' \notin {"host", "files"}
    BY <2>1, <2>2 DEF Covered
  <2>3. CASE UNCHANGED <<disk, at, exception, short>>
    <3>1. /\ disk' = disk /\ at' = at /\ exception' = exception /\ short' = short
          /\ batch' = batch /\ index' = index /\ worker' = worker
      BY <2>3
    <3>2. Covered' <=> Covered
      BY <3>1 DEF Covered, Busy
    <3>3. QED
      BY <3>2 DEF IInv
  <2>4. QED
    BY <2>2, <2>3
<1>5. QED
  BY <1>2, <1>3, <1>4

\* The list: whatever is outdated, the program comes first and alone.
LEMMA GetListStep == ASSUME IInv, GetList PROVE IInv'
<1> DEFINE outdated == {f \in ToSet(Listed) : Outdated(f)}
<1>1. /\ at = "list" /\ AllOff /\ worker \in [Worker -> [step : Steps, file : File]]
      /\ disk' \in [File -> Content] /\ dead' = dead /\ dead \in Content
      /\ disk'[Host] = disk[Host] /\ UNCHANGED <<short, broken>>
  BY Constants DEF GetList, host, ghost, IInv, Types, Content
<1>2. broken \/ (Host \notin short /\ Startable /\ Startable')
  BY <1>1 DEF IInv, HostSafe, Startable
<1>3. CASE UNCHANGED pool /\ at' \in {"game", "move"}
  <2>1. Types' /\ Claims' /\ Covered'
    BY <1>1, <1>3, Idle DEF pool
  <2>2. HostSafe'
    BY <1>1, <1>2, <1>3 DEF HostSafe
  <2>3. QED
    BY <2>1, <2>2 DEF IInv
<1>4. CASE /\ outdated # {} /\ Host \notin outdated /\ at' = "files"
           /\ \E files \in InOrder(outdated) : UpdateFiles(files)
  <2>1. PICK files \in InOrder(outdated) : UpdateFiles(files)
    BY <1>4
  <2> HIDE DEF outdated
  <2>2. outdated \subseteq ToSet(Listed)
    BY DEF outdated
  <2>3. /\ files \in Seq(outdated) /\ Len(files) \in Nat
        /\ ToSet(files) = outdated /\ IsInjective(files)
    BY <2>1, <2>2, OrderedBatch
  <2>4. files \in Seq(File)
    BY <2>2, <2>3, SeqMonotonic DEF File
  <2>5. Len(files) >= 1
    <3>1. Len(files) # 0
      BY <1>4, <2>3, LenProperties DEF ToSet
    <3>2. QED
      BY <2>3, <3>1
  <2>6. Types' /\ Claims' /\ Covered'
    BY <1>1, <1>4, <2>1, <2>3, <2>4, <2>5, FreshBatch
  <2>7. HostSafe'
    <3>1. batch' = files
      BY <2>1 DEF UpdateFiles
    <3>2. Host \notin ToSet(batch')
      BY <1>4, <2>3, <3>1
    <3>3. QED
      BY <1>1, <1>2, <1>4, <3>2 DEF HostSafe
  <2>8. QED
    BY <2>6, <2>7 DEF IInv
<1>5. QED
  BY <1>3, <1>4 DEF GetList

\* The program is moved aside, unless the place is taken.
LEMMA MoveStep == ASSUME IInv, MoveHost PROVE IInv'
<1>1. /\ at = "move" /\ at' = "host" /\ UpdateFiles(<<Host>>) /\ UNCHANGED <<short, broken>>
      /\ disk[Host] \in Content /\ dead \in Content
  BY Constants DEF MoveHost, ghost, IInv, Types
<1>2. /\ disk' \in [File -> Content] /\ dead' \in Content
      /\ \/ disk'[Host] = disk[Host]
         \/ disk'[Host] = "absent" /\ dead' = disk[Host]
  <2>1. CASE disk[Host] # "absent" /\ dead = "absent"
    <3>1. Moved(disk[Host], dead)[1] = "absent" /\ Moved(disk[Host], dead)[2] = disk[Host]
      BY <2>1 DEF Moved
    <3>2. disk' = [disk EXCEPT ![Host] = "absent"] /\ dead' = disk[Host]
      BY <3>1 DEF MoveHost
    <3>3. QED
      BY <1>1, <3>2, Constants DEF IInv, Types, Content
  <2>2. CASE ~(disk[Host] # "absent" /\ dead = "absent")
    <3>1. Moved(disk[Host], dead)[1] = disk[Host] /\ Moved(disk[Host], dead)[2] = dead
      BY <2>2 DEF Moved
    <3>2. disk' = [disk EXCEPT ![Host] = disk[Host]] /\ dead' = dead
      BY <3>1 DEF MoveHost
    <3>3. QED
      BY <1>1, <3>2, Constants DEF IInv, Types
  <2>3. QED
    BY <2>1, <2>2
<1>3. <<Host>> \in Seq(File) /\ Len(<<Host>>) = 1 /\ ToSet(<<Host>>) = {Host} /\ IsInjective(<<Host>>)
  BY Constants DEF ToSet, IsInjective
<1>4. Types' /\ Claims' /\ Covered'
  <2> DEFINE files == <<Host>>
  <2>1. /\ files \in Seq(File) /\ Len(files) >= 1 /\ IsInjective(files)
        /\ UpdateFiles(files) /\ at' \in {"host", "files"}
    BY <1>1, <1>3
  <2> HIDE DEF files
  <2>2. QED
    BY <1>2, <2>1, FreshBatch
<1>5. HostSafe'
  <2>1. ToSet(batch') = {Host}
    BY <1>1, <1>3 DEF UpdateFiles
  <2>2. broken \/ (Host \notin short /\ Startable)
    BY <1>1 DEF IInv, HostSafe
  <2>3. broken \/ Startable' \/ Swapped'
    BY <1>2, <2>2 DEF Startable, Swapped, Set
  <2>4. QED
    BY <1>1, <2>1, <2>2, <2>3 DEF HostSafe
<1>6. QED
  BY <1>4, <1>5 DEF IInv

\* All have ended: the program is there, or it is put back.
LEMMA JoinStep == ASSUME IInv, Done \/ Failed PROVE IInv'
<1>1. /\ at \in {"host", "files"} /\ AllOff /\ at' \notin {"host", "files"}
      /\ UNCHANGED <<disk, host, pool, ghost>>
  BY DEF Done, Failed, Written, Thrown, ui
<1>2. Types' /\ Claims' /\ Covered'
  BY <1>1, Idle DEF pool, host, IInv, Types
<1>3. ~Writing
  BY <1>1, Constants DEF AllOff, Writing
<1>4. CASE Failed
  <2>1. at' = IF at = "host" THEN "restore" ELSE Thrown
    BY <1>4 DEF Failed
  <2>2. Thrown \in {"down", "game"}
    BY DEF Thrown
  <2>3. UNCHANGED <<disk, dead, short, broken>>
    BY <1>1 DEF host, ghost
  <2>4. QED
    BY <1>1, <1>2, <1>3, <2>1, <2>2, <2>3 DEF IInv, HostSafe, Startable, Swapped, Set
<1>5. CASE Done
  <2>1. at' = IF at = "host" THEN "relaunch" ELSE "game"
    BY <1>5 DEF Done
  <2>2. at = "host" => broken \/ Startable
    <3>1. SUFFICES ASSUME at = "host", ~broken PROVE Startable
      OBVIOUS
    <3>2. ToSet(batch) = {Host} /\ Host \notin short
      BY <3>1 DEF IInv, HostSafe
    <3>3. PICK k \in 1 .. Len(batch) : batch[k] = Host
      BY <3>2, LenProperties DEF ToSet, IInv, Types
    <3>4. exception = "none" /\ worker[1] = Off /\ index >= Len(batch)
      BY <1>1, <1>5, <3>1, Constants DEF Done, Written, AllOff, IInv, Covered
    <3>5. k <= index
      BY <3>4, LenProperties DEF IInv, Types
    <3>6. \A w \in Worker : ~Busy(w)
      BY <1>1, Constants DEF AllOff, Busy
    <3>7. Fine(disk, short, Host)
      BY <3>1, <3>3, <3>4, <3>5, <3>6 DEF IInv, Covered
    <3>8. QED
      BY <3>2, <3>7 DEF Fine, Startable
  <2>3. UNCHANGED <<disk, dead, short, broken>>
    BY <1>1 DEF host, ghost
  <2>4. at = "files" => broken \/ Startable
    BY DEF IInv, HostSafe
  <2>5. broken \/ (Host \notin short /\ Startable')
    BY <1>1, <2>2, <2>3, <2>4 DEF IInv, HostSafe, Startable
  <2>6. HostSafe'
    BY <2>1, <2>3, <2>5 DEF HostSafe
  <2>7. QED
    BY <1>2, <2>6 DEF IInv
<1>6. QED
  BY <1>4, <1>5

LEMMA RestoreStep == ASSUME IInv, Restore PROVE IInv'
<1>1. /\ at = "restore" /\ at' \in {"down", "game"} /\ AllOff
      /\ UNCHANGED <<pool, short, broken>>
      /\ disk[Host] \in Content /\ dead \in Content
  BY Constants DEF Restore, Thrown, ghost, IInv, Types
<1>2. /\ disk' \in [File -> Content] /\ dead' \in Content
      /\ IF dead # "absent" /\ disk[Host] = "absent" THEN disk'[Host] = dead
                                                    ELSE disk'[Host] = disk[Host]
  <2>1. CASE dead # "absent" /\ disk[Host] = "absent"
    <3>1. Moved(dead, disk[Host])[1] = "absent" /\ Moved(dead, disk[Host])[2] = dead
      BY <2>1 DEF Moved
    <3>2. disk' = [disk EXCEPT ![Host] = dead] /\ dead' = "absent"
      BY <3>1 DEF Restore
    <3>3. QED
      BY <1>1, <2>1, <3>2, Constants DEF IInv, Types, Content
  <2>2. CASE ~(dead # "absent" /\ disk[Host] = "absent")
    <3>1. Moved(dead, disk[Host])[1] = dead /\ Moved(dead, disk[Host])[2] = disk[Host]
      BY <2>2 DEF Moved
    <3>2. disk' = [disk EXCEPT ![Host] = disk[Host]] /\ dead' = dead
      BY <3>1 DEF Restore
    <3>3. QED
      BY <1>1, <2>2, <3>2, Constants DEF IInv, Types
  <2>3. QED
    BY <2>1, <2>2
<1>3. Types' /\ Claims' /\ Covered'
  BY <1>1, <1>2, Idle DEF pool
<1>4. broken \/ (Host \notin short /\ (Startable \/ Swapped))
  BY <1>1 DEF IInv, HostSafe
<1>5. broken \/ Startable'
  BY <1>2, <1>4 DEF Startable, Swapped, Set
<1>6. HostSafe'
  BY <1>1, <1>4, <1>5 DEF HostSafe
<1>7. QED
  BY <1>3, <1>6 DEF IInv

\* The rest of a run touches neither the program nor a thread.
LEMMA RunStep ==
  ASSUME IInv, Start \/ DeleteOld \/ NoList \/ Relaunch \/ Quit \/ Publish
  PROVE  IInv'
<1> USE DEF Start, DeleteOld, NoList, Relaunch, Quit, Publish, host, ghost, pool, Mishap
<1>1. /\ at \notin {"host", "files", "restore"} /\ at' \notin {"host", "files", "restore"}
      /\ UNCHANGED <<pool, short, broken>> /\ AllOff
  BY DEF IInv, Types
<1>2. disk' \in [File -> Content] /\ (Startable => Startable')
  <2>1. CASE disk' = disk
    BY <2>1 DEF IInv, Types, Startable
  <2>2. CASE Publish
    BY <2>2, Constants DEF IInv, Types, Startable, Content
  <2>3. QED
    BY <2>1, <2>2
<1>3. dead' \in Content
  BY DEF IInv, Types, Content
<1>4. Types' /\ Claims' /\ Covered'
  BY <1>1, <1>2, <1>3, Idle
<1>5. HostSafe'
  BY <1>1, <1>2 DEF IInv, HostSafe
<1>6. QED
  BY <1>4, <1>5 DEF IInv

\* A crash takes all threads with it; within the swap it may leave no program.
LEMMA CrashStep == ASSUME IInv, Crash PROVE IInv'
<1> USE DEF Crash
<1>1. \A w \in Worker : worker'[w] = Off
  OBVIOUS
<1>2. worker' \in [Worker -> [step : Steps, file : File]]
  BY Constants
<1>3. Types'
  BY <1>1, <1>2, Constants DEF IInv, Types, host, AllOff
<1>4. \A w \in Worker : ~Busy(w)' /\ worker'[w].step = "off"
  BY <1>1, Constants DEF Busy
<1>5. Claims' /\ Covered'
  BY <1>4 DEF Claims, Covered
<1>6. HostSafe'
  BY DEF IInv, HostSafe, Swapping, Startable
<1>7. QED
  BY <1>3, <1>5, <1>6 DEF IInv

\* The rest changes nothing that the invariant is about.
LEMMA OtherStep == ASSUME IInv, Cancel \/ LingererEnds \/ UNCHANGED vars PROVE IInv'
<1>1. UNCHANGED <<disk, dead, at, batch, index, worker, exception, downloading, short, broken>>
  BY DEF Cancel, LingererEnds, vars, host, pool, ui, ghost
<1>2. Types' /\ Claims' /\ HostSafe'
  BY <1>1 DEF IInv, Types, AllOff, Claims, Busy, HostSafe, Startable, Swapped, Writing, Set
<1>3. Covered'
  BY <1>1 DEF IInv, Covered, Busy
<1>4. QED
  BY <1>2, <1>3 DEF IInv

\* Every step keeps the invariant.
LEMMA NextIInv == IInv /\ [Next]_vars => IInv'
  BY ThreadStep, GetListStep, MoveStep, JoinStep, RestoreStep, RunStep, CrashStep, OtherStep
  DEF Next, UpdateThread

\* The inductive invariant holds.
LEMMA Invariant == Spec => []IInv
  BY InitIInv, NextIInv, PTL DEF Spec

-----------------------------------------------------------------------------
(* The theorems                                                            *)

\* file_updater::update_host_binary: whatever fails or is cancelled, a program
\* that can be started is left, unless a crash or a short write hits the swap.
THEOREM ProgramKept == Spec => []HostKept
<1>1. IInv => HostKept
  BY DEF IInv, HostSafe, HostKept, Swapping
<1>2. QED
  BY <1>1, Invariant, PTL

\* file_updater::update_files: no two threads have the same file, and the dialog
\* finds a file that ends among those that began.
THEOREM OneThreadPerFile == Spec => []EndsWhatBegan
<1>1. IInv => EndsWhatBegan
  <2>1. SUFFICES ASSUME IInv, NEW w \in Worker, worker[w].step = "end"
                 PROVE  /\ worker[w].file \in downloading
                        /\ \A v \in Worker \ {w} : Busy(v) => worker[v].file # worker[w].file
    BY DEF EndsWhatBegan
  <2>2. QED
    BY <2>1 DEF IInv, Claims, Busy
<1>2. QED
  BY <1>1, Invariant, PTL

\* When all threads have ended without an exception, the batch is up to date.
THEOREM WrittenAll == Spec => []WrittenMeansCurrent
<1>1. IInv => WrittenMeansCurrent
  <2>1. SUFFICES ASSUME IInv, at \in {"host", "files"}, Written, NEW f \in ToSet(batch)
                 PROVE  disk[f] = "new" \/ f \in short
    BY DEF WrittenMeansCurrent
  <2>2. PICK k \in 1 .. Len(batch) : batch[k] = f
    BY <2>1, LenProperties DEF ToSet, IInv, Types
  <2>3. exception = "none" /\ worker[1] = Off /\ index >= Len(batch)
    BY <2>1, Constants DEF Written, AllOff, IInv, Covered
  <2>4. k <= index
    BY <2>1, <2>3, LenProperties DEF IInv, Types
  <2>5. \A w \in Worker : ~Busy(w)
    BY <2>1, Constants DEF Written, AllOff, Busy
  <2>6. QED
    BY <2>1, <2>2, <2>3, <2>4, <2>5 DEF IInv, Covered, Fine
<1>2. QED
  BY <1>1, Invariant, PTL
=============================================================================
