------------------------------ MODULE Updater -------------------------------
(***************************************************************************)
(* The client's self-update (client/updater/): the file updater compares   *)
(* the installed files with the published list, swaps the running program  *)
(* for its new version, lets a pool of threads download what is outdated,  *)
(* and is shown and cancelled through a progress dialog.                   *)
(*                                                                         *)
(* A run ends with the game or with the end of the process                 *)
(* (module/updater.cpp).  Processes crash, downloads fail, files are       *)
(* written short and new versions are published between runs.              *)
(***************************************************************************)
EXTENDS Integers, Sequences, FiniteSets, SequencesExt

CONSTANTS
    Host,        \* UPDATE_HOST_BINARY, the program itself
    Listed,      \* the published list, a sequence of names with Host among them
    Stray,       \* files in the folder that the list does not name
    Threads,     \* how many threads the machine is good for
    MaxMishaps   \* bound on all that goes wrong, and on publications

ASSUME UpdaterAssumption == /\ Listed \in Seq(ToSet(Listed)) /\ IsInjective(Listed)
                            /\ Host \in ToSet(Listed)
                            /\ Stray \cap ToSet(Listed) = {}
                            /\ Threads \in Nat \ {0}
                            /\ MaxMishaps \in Nat

File    == ToSet(Listed) \cup Stray
Content == {"absent", "old", "new", "partial"}
Tries   == 4     \* attempts of delete_old_process_file

VARIABLES
    disk,        \* the installed files; disk[Host] is process_file_
    dead,        \* dead_process_file_
    lingering,   \* the process that was relaunched from there still runs
    at,          \* where the update thread of the running process is
    tries,       \* attempts to delete the dead file so far
    batch,       \* the files update_files was called with
    index,       \* current_index
    worker,      \* what each of its threads does, with which file
    exception,   \* what the last thread to fail has stored
    downloading, \* downloading_files_ of the dialog
    downloaded,  \* downloaded_files_ of the dialog
    cancelled,   \* HasUserCancelled
    mishaps,     \* faults so far
    short,       \* history: files last written only in part, with no error
    broken       \* history: a crash or a short write has hit the program's swap

vars  == <<disk, dead, lingering, at, tries, batch, index, worker, exception,
           downloading, downloaded, cancelled, mishaps, short, broken>>
host  == <<dead, lingering, tries>>
pool  == <<batch, index, worker, exception>>
ui    == <<downloading, downloaded, cancelled>>
ghost == <<mishaps, short, broken>>

Worker == 1 .. Threads
Off    == [step |-> "off", file |-> Host]

Init == /\ disk = [f \in File |-> "old"]
        /\ dead = "absent"
        /\ lingering = FALSE
        /\ at = "down"
        /\ tries = 0
        /\ batch = <<>> /\ index = 0
        /\ worker = [w \in Worker |-> Off]
        /\ exception = "none"
        /\ downloading = {} /\ downloaded = {} /\ cancelled = FALSE
        /\ mishaps = 0 /\ short = {} /\ broken = FALSE

Startable == disk[Host] \in {"old", "new"}
Mishap    == mishaps < MaxMishaps /\ mishaps' = mishaps + 1
Swapping  == at \in {"host", "restore"}

\* MoveFile refuses to overwrite: what it leaves at source and target.
Moved(from, to) == IF from # "absent" /\ to = "absent" THEN <<"absent", from>> ELSE <<from, to>>

\* mutation: a file that is there with something new in it counts as updated
OutdatedUnlessTouched(f) == disk[f] \in {"absent", "old"}

Outdated(f) == disk[f] # "new"

Place(f) == CHOOSE k \in DOMAIN Listed : Listed[k] = f

\* get_outdated_files keeps the order of the list: the sequence of the names of
\* S, as a set of one.
InOrder(S) ==
    {s \in SeqOf(S, Len(Listed)) :
        ToSet(s) = S /\ \A j, k \in DOMAIN s : j < k => Place(s[j]) < Place(s[k])}

-----------------------------------------------------------------------------
(* The update thread                                                       *)

\* The constructor of the updater's component starts the thread.
Start == /\ at = "down" /\ Startable
         /\ at' = "clear"
         /\ tries' = 0
         /\ UNCHANGED <<disk, dead, lingering, pool, ui, ghost>>

\* delete_old_process_file: the file cannot be removed while a process runs
\* from it; after the last attempt the update goes on all the same.
DeleteOld ==
    /\ at = "clear"
    /\ IF lingering /\ dead # "absent"
       THEN /\ tries' = tries + 1
            /\ at' = IF tries' = Tries THEN "list" ELSE "clear"
            /\ UNCHANGED dead
       ELSE /\ dead' = "absent"
            /\ at' = "list"
            /\ UNCHANGED tries
    /\ UNCHANGED <<disk, lingering, pool, ui, ghost>>

\* update_files: a fresh dialog and thread_count threads.
UpdateFiles(files) ==
    /\ batch' = files
    /\ index' = 0
    /\ worker' = [w \in Worker |-> IF w <= Len(files) THEN [Off EXCEPT !.step = "test"] ELSE Off]
    /\ exception' = "none"
    /\ downloading' = {} /\ downloaded' = {} /\ cancelled' = FALSE

\* run: with a list, what it does not name is removed and what is outdated is
\* updated, the program first and alone.
GetList ==
    LET outdated == {f \in ToSet(Listed) : Outdated(f)}
    IN  /\ at = "list"
        /\ disk' = [f \in File |-> IF f \in Stray THEN "absent" ELSE disk[f]]
        /\ \/ /\ outdated = {}
              /\ at' = "game"
              /\ UNCHANGED <<pool, ui>>
           \/ /\ Host \in outdated
              /\ at' = "move"
              /\ UNCHANGED <<pool, ui>>
           \/ /\ outdated # {} /\ Host \notin outdated
              /\ at' = "files"
              /\ \E files \in InOrder(outdated) : UpdateFiles(files)
        /\ UNCHANGED <<host, ghost>>

\* No list, or none that can be read: nothing is outdated.
NoList == /\ at = "list" /\ Mishap
          /\ at' = "game"
          /\ UNCHANGED <<disk, host, pool, ui, short, broken>>

\* update_host_binary: move_current_process_file, then update_files. What
\* MoveFile returns is not looked at.
MoveHost ==
    LET moved == Moved(disk[Host], dead)
    IN  /\ at = "move"
        /\ disk' = [disk EXCEPT ![Host] = moved[1]]
        /\ dead' = moved[2]
        /\ at' = "host"
        /\ UpdateFiles(<<Host>>)
        /\ UNCHANGED <<lingering, tries, ghost>>

AllOff  == \A w \in Worker : worker[w] = Off
Written == AllOff /\ exception = "none"

\* All threads are joined and none has failed: done_update, then the program
\* is started again, or the game.
Done == /\ at \in {"host", "files"} /\ Written
        /\ downloading' = {} /\ downloaded' = {}
        /\ at' = IF at = "host" THEN "relaunch" ELSE "game"
        /\ UNCHANGED <<disk, host, pool, cancelled, ghost>>

\* What is rethrown ends the process (update_cancelled) or is swallowed.
Thrown == IF exception = "cancelled" THEN "down" ELSE "game"

\* The exception of a thread is rethrown when all are joined. The swap is
\* undone first.
Failed == /\ at \in {"host", "files"} /\ AllOff /\ exception # "none"
          /\ at' = IF at = "host" THEN "restore" ELSE Thrown
          /\ UNCHANGED <<disk, host, pool, ui, ghost>>

\* mutation: the program is put back only when the user did not cancel
RestoreUnlessCancelled ==
    LET moved == Moved(dead, disk[Host])
    IN  /\ at = "restore"
        /\ IF exception = "cancelled"
           THEN UNCHANGED <<disk, dead>>
           ELSE disk' = [disk EXCEPT ![Host] = moved[2]] /\ dead' = moved[1]
        /\ at' = Thrown
        /\ UNCHANGED <<lingering, tries, pool, ui, ghost>>

Restore ==
    LET moved == Moved(dead, disk[Host])
    IN  /\ at = "restore"
        /\ disk' = [disk EXCEPT ![Host] = moved[2]]
        /\ dead' = moved[1]
        /\ at' = Thrown
        /\ UNCHANGED <<lingering, tries, pool, ui, ghost>>

\* relaunch_self, whose result is not looked at, and TerminateProcess.
Relaunch ==
    /\ at = "relaunch"
    /\ lingering' = TRUE
    /\ at' = IF Startable THEN "clear" ELSE "down"
    /\ tries' = 0
    /\ UNCHANGED <<disk, dead, pool, ui, ghost>>

-----------------------------------------------------------------------------
(* The threads of update_files                                             *)

Step(w, step) == worker' = [worker EXCEPT ![w].step = step]
Ends(w)       == worker' = [worker EXCEPT ![w] = Off]

\* while no exception is stored
Test(w) == /\ worker[w].step = "test"
           /\ IF exception = "none" THEN Step(w, "take") ELSE Ends(w)
           /\ UNCHANGED <<disk, host, at, batch, index, exception, ui, ghost>>

\* mutation: the index is read and not advanced by the thread that reads it
TakeUnclaimed(w) ==
    /\ worker[w].step = "take"
    /\ index' = Len(SelectSeq(batch, LAMBDA f : f \in downloaded))
    /\ IF index' < Len(batch)
       THEN worker' = [worker EXCEPT ![w] = [step |-> "begin", file |-> batch[index' + 1]]]
       ELSE Ends(w)
    /\ UNCHANGED <<disk, host, at, batch, exception, ui, ghost>>

\* current_index++
Take(w) == /\ worker[w].step = "take"
           /\ index' = index + 1
           /\ IF index < Len(batch)
              THEN worker' = [worker EXCEPT ![w] = [step |-> "begin", file |-> batch[index + 1]]]
              ELSE Ends(w)
           /\ UNCHANGED <<disk, host, at, batch, exception, ui, ghost>>

\* mutation: only a cancellation is stored
ThrowsIfCancelled(w, what) ==
    /\ exception' = IF what = "cancelled" THEN what ELSE exception
    /\ Ends(w)

\* catch (...) stores the exception over an earlier one.
Throws(w, what) == exception' = what /\ Ends(w)

\* begin_file tests for the cancellation before it shows the file.
Begin(w) ==
    /\ worker[w].step = "begin"
    /\ IF cancelled
       THEN Throws(w, "cancelled") /\ UNCHANGED downloading
       ELSE /\ Step(w, "download")
            /\ downloading' = downloading \cup {worker[w].file}
            /\ UNCHANGED exception
    /\ UNCHANGED <<disk, host, at, batch, index, downloaded, cancelled, ghost>>

\* The download ends with what was asked for ...
Download(w) ==
    /\ worker[w].step = "download"
    /\ Step(w, "open")
    /\ UNCHANGED <<disk, host, at, batch, index, exception, ui, ghost>>

\* ... or with something else, or nothing ...
DownloadFails(w) ==
    /\ worker[w].step = "download" /\ Mishap
    /\ Throws(w, "failed")
    /\ UNCHANGED <<disk, host, at, batch, index, ui, short, broken>>

\* ... or is cancelled: file_progress tests for it whenever it is called.
DownloadCancelled(w) ==
    /\ worker[w].step = "download" /\ cancelled
    /\ Throws(w, "cancelled")
    /\ UNCHANGED <<disk, host, at, batch, index, ui, ghost>>

\* write_file opens the file, which empties it. The file a process runs from
\* cannot be opened: the program's, where it could not be moved away.
Open(w) ==
    LET f == worker[w].file
    IN  /\ worker[w].step = "open"
        /\ IF f = Host /\ disk[Host] # "absent"
           THEN Throws(w, "failed") /\ UNCHANGED disk
           ELSE Step(w, "write") /\ disk' = [disk EXCEPT ![f] = "partial"] /\ UNCHANGED exception
        /\ UNCHANGED <<host, at, batch, index, ui, ghost>>

Write(w) ==
    LET f == worker[w].file
    IN  /\ worker[w].step = "write"
        /\ disk' = [disk EXCEPT ![f] = "new"]
        /\ short' = short \ {f}
        /\ Step(w, "end")
        /\ UNCHANGED <<host, at, batch, index, exception, ui, mishaps, broken>>

\* The state of the stream is not looked at after the write.
WriteShort(w) ==
    LET f == worker[w].file
    IN  /\ worker[w].step = "write" /\ Mishap
        /\ short' = short \cup {f}
        /\ broken' = (broken \/ f = Host)
        /\ Step(w, "end")
        /\ UNCHANGED <<disk, host, at, batch, index, exception, ui>>

\* end_file
End(w) == /\ worker[w].step = "end"
          /\ downloading' = downloading \ {worker[w].file}
          /\ downloaded' = downloaded \cup {worker[w].file}
          /\ Step(w, "test")
          /\ UNCHANGED <<disk, host, at, batch, index, exception, cancelled, ghost>>

Thread(w) == \/ Test(w) \/ Take(w) \/ Begin(w)
             \/ Download(w) \/ DownloadFails(w) \/ DownloadCancelled(w)
             \/ Open(w) \/ Write(w) \/ WriteShort(w) \/ End(w)

-----------------------------------------------------------------------------
(* The user, the system and the publisher                                  *)

Cancel == /\ at \in {"host", "files"} /\ ~cancelled /\ Mishap
          /\ cancelled' = TRUE
          /\ UNCHANGED <<disk, host, at, pool, downloading, downloaded, short, broken>>

\* The running process dies, with all its threads.
Crash == /\ at # "down" /\ Mishap
         /\ broken' = (broken \/ Swapping)
         /\ at' = "down"
         /\ worker' = [w \in Worker |-> Off]
         /\ UNCHANGED <<disk, host, batch, index, exception, ui, short>>

\* The game is over.
Quit == /\ at = "game"
        /\ at' = "down"
        /\ UNCHANGED <<disk, host, pool, ui, ghost>>

\* The process that was relaunched is gone at last.
LingererEnds == /\ lingering
                /\ lingering' = FALSE
                /\ UNCHANGED <<disk, dead, tries, at, pool, ui, ghost>>

\* A new version of everything, published between two updates.
Publish == /\ at \in {"down", "clear", "game"} /\ Mishap
           /\ disk' = [f \in File |-> IF disk[f] = "new" THEN "old" ELSE disk[f]]
           /\ UNCHANGED <<host, at, pool, ui, short, broken>>

UpdateThread == \/ DeleteOld \/ GetList \/ NoList \/ MoveHost \/ Done \/ Failed
                \/ Restore \/ Relaunch

Next == \/ Start \/ UpdateThread
        \/ \E w \in Worker : Thread(w)
        \/ Cancel \/ Crash \/ Quit \/ LingererEnds \/ Publish

Spec == Init /\ [][Next]_vars

\* Threads go on and downloads end; the game is quit and started again; the
\* relaunched process ends.
Fairness == /\ WF_vars(UpdateThread)
            /\ \A w \in Worker : WF_vars(Thread(w))
            /\ WF_vars(Start) /\ WF_vars(Quit) /\ WF_vars(LingererEnds)

FairSpec == Spec /\ Fairness

-----------------------------------------------------------------------------
(* Properties                                                              *)

TypeOK == /\ disk \in [File -> Content] /\ dead \in Content
          /\ lingering \in BOOLEAN
          /\ tries \in 0 .. Tries
          /\ index \in 0 .. Len(batch) + Threads
          /\ exception \in {"none", "failed", "cancelled"}
          /\ downloading \cup downloaded \subseteq ToSet(batch)
          /\ cancelled \in BOOLEAN
          /\ mishaps \in 0 .. MaxMishaps
          /\ short \subseteq File /\ broken \in BOOLEAN

\* The program is missing or incomplete only while it is swapped: whatever
\* fails or is cancelled, in whichever thread, update_host_binary leaves one
\* that can be started, unless the process dies in between or a write falls
\* short unnoticed.
HostKept == Startable \/ Swapping \/ broken

\* A thread that has a file.
Busy(w) == worker[w].step \in {"begin", "download", "open", "write", "end"}

\* A file is worked on by one thread, once: end_file finds it among those that
\* are being downloaded (the assertion in updater_ui.cpp:73).
EndsWhatBegan ==
    \A w \in Worker :
        worker[w].step = "end" =>
            /\ worker[w].file \in downloading
            /\ \A v \in Worker \ {w} : Busy(v) => worker[v].file # worker[w].file

\* When all threads have ended and none has stored an exception, every file of
\* the batch is the published one (or was written short, which shows nowhere).
WrittenMeansCurrent ==
    at \in {"host", "files"} /\ Written => \A f \in ToSet(batch) : disk[f] = "new" \/ f \in short

\* When nothing goes wrong any more, the installation gets up to date and stays
\* so, by runs that repair what earlier ones left, and no process relaunches
\* itself for ever; or the program was broken by a crash within its swap.
Current   == disk = [f \in File |-> IF f \in Stray THEN "absent" ELSE "new"]
Converges == <>[](Current \/ (broken /\ ~Startable))
=============================================================================
